---------------------------- MODULE Spec2Model ----------------------------
(***************************************************************************)
(* Model of data_management/processing.py: the column transformer          *)
(* (process_native_data, process_all_labels, process_dummies_columns,      *)
(* encode_labels, the three fixed-dictionary mappers) and the train/test   *)
(* preparer (prepare_train_test_data).                                     *)
(*                                                                         *)
(* A DataFrame is a function from column names to columns; a column is a   *)
(* record [dtype, vals] with dtype "object" (strings) or "number".         *)
(* Column order is not modelled.                                           *)
(***************************************************************************)
EXTENDS Integers, Sequences, FiniteSets, TLC

VARIABLES
    table,   \* the caller's DataFrame object (what the caller still holds)
    pre,     \* value of the caller's DataFrame when the last call was made
    ret,     \* what the last call returned
    last,    \* name of the last operation called
    steps,   \* the order of the steps, when the last call was StepsInOrder
    calls,   \* number of calls made on this table
    \* prepare_train_test_data, run twice side by side (runs 1 and 2)
    inp,          \* run -> the numeric table passed in (df)
    reductioner,  \* the reduction mode passed in
    pc,           \* "start", "split", "scaled", "done" or "error"
    err,          \* the step that raised, "" when none did
    part,         \* run -> X_train, X_test, y_train, y_test after the split
    scaler,       \* run -> the fitted StandardScaler
    scaled,       \* run -> X_train, X_test after pipe.transform
    reducer,      \* run -> the fitted PCA or LDA
    result        \* run -> the tuple returned

tvars == <<table, pre, ret, last, steps, calls>>

pvars == <<inp, reductioner, pc, err, part, scaler, scaled, reducer, result>>

vars == <<tvars, pvars>>

\* ------------------------------------------------------------------ bounds

MaxRows == 3
MaxCalls == 2
MaxSamples == 8
MaxFeatures == 5

\* ------------------------------------------------------------- data values

\* float('nan') as produced by Series.map for a value with no key
NaN == -1

Col(dtype, vals) == [dtype |-> dtype, vals |-> vals]

Range(s) == {s[i] : i \in DOMAIN s}

\* Every string of the model in Python's str order (code point order), the
\* order np.unique sorts an object array in.
SortedStrings ==
    << "1", "10/49", "15", "5", "50-99", "<1", "<10", ">20", ">4", "Arts",
       "Bachelors", "Evening course", "Female", "Full time course",
       "Funded Startup", "Graduate", "Has relevent experience", "High School",
       "Male", "Masters", "NGO", "No relevent experience", "Other",
       "Part time course", "Pvt Ltd", "STEM", "Unknown", "city_103",
       "city_21", "city_40", "never", "no_enrollment" >>

StrRank(s) == CHOOSE i \in DOMAIN SortedStrings : SortedStrings[i] = s

\* a < b as np.unique orders the values of one column; nan sorts last
Less(dtype, a, b) ==
    IF dtype = "object" THEN StrRank(a) < StrRank(b)
    ELSE IF a = NaN THEN FALSE
    ELSE IF b = NaN THEN TRUE
    ELSE a < b

\* np.unique(values): the distinct values as a sorted sequence
RECURSIVE SortedSeq(_, _)
SortedSeq(dtype, S) ==
    IF S = {} THEN << >>
    ELSE LET m == CHOOSE x \in S : \A y \in S : ~Less(dtype, y, x)
         IN  <<m>> \o SortedSeq(dtype, S \ {m})

unique(col) == SortedSeq(col.dtype, Range(col.vals))

IndexOf(seq, v) == CHOOSE i \in DOMAIN seq : seq[i] = v

\* ------------------------------------------------------------ sample rows

SampleRows ==
    << [enrollee_id |-> 8949, city |-> "city_103", city_development_index |-> 920,
        gender |-> "Male", relevent_experience |-> "Has relevent experience",
        enrolled_university |-> "no_enrollment", education_level |-> "Graduate",
        major_discipline |-> "STEM", experience |-> ">20", company_size |-> "50-99",
        company_type |-> "Pvt Ltd", last_new_job |-> "1", training_hours |-> 36,
        target |-> 1],
       [enrollee_id |-> 29725, city |-> "city_40", city_development_index |-> 776,
        gender |-> "Female", relevent_experience |-> "No relevent experience",
        enrolled_university |-> "Full time course", education_level |-> "Masters",
        major_discipline |-> "STEM", experience |-> "15", company_size |-> "<10",
        company_type |-> "Funded Startup", last_new_job |-> ">4", training_hours |-> 47,
        target |-> 0],
       [enrollee_id |-> 11561, city |-> "city_21", city_development_index |-> 624,
        gender |-> "Other", relevent_experience |-> "No relevent experience",
        enrolled_university |-> "Part time course", education_level |-> "High School",
        major_discipline |-> "STEM", experience |-> "5", company_size |-> "10/49",
        company_type |-> "Pvt Ltd", last_new_job |-> "never", training_hours |-> 8,
        target |-> 0],
       [enrollee_id |-> 666, city |-> "city_103", city_development_index |-> 920,
        gender |-> "Male", relevent_experience |-> "Unknown",
        enrolled_university |-> "Evening course", education_level |-> "Bachelors",
        major_discipline |-> "Arts", experience |-> "<1", company_size |-> "50-99",
        company_type |-> "NGO", last_new_job |-> "1", training_hours |-> 36,
        target |-> 1] >>

NumberColumns == {"enrollee_id", "city_development_index", "training_hours", "target"}

SchemaColumns == DOMAIN SampleRows[1]

\* the DataFrame whose i-th row is SampleRows[rows[i]]
Frame(rows) ==
    [c \in SchemaColumns |->
        Col(IF c \in NumberColumns THEN "number" ELSE "object",
            [i \in DOMAIN rows |-> SampleRows[rows[i]][c]])]

\* the tables of 1..MaxRows different sample rows, in every row order
InputFrames ==
    {Frame(rows) : rows \in UNION {{r \in [1..n -> DOMAIN SampleRows] :
                                       \A i, j \in 1..n : r[i] = r[j] => i = j}
                                   : n \in 1..MaxRows}}

NRows(df) == Len(df[CHOOSE c \in DOMAIN df : TRUE].vals)

\* ------------------------------------------------ process_dummies_columns

dummies_cols == <<"gender", "relevent_experience", "enrolled_university",
                  "major_discipline", "company_size">>

encoded_cols == <<"city", "city_development_index", "experience", "company_type",
                  "education_level", "last_new_job", "training_hours">>

insignificant_cols == <<"enrollee_id">>

Select(df, columns) == [c \in Range(columns) |-> df[c]]

Without(df, columns) == [c \in DOMAIN df \ Range(columns) |-> df[c]]

\* assignment of every column of src into df (df[col] = src[col])
Assign(df, src) ==
    [c \in DOMAIN df \cup DOMAIN src |-> IF c \in DOMAIN src THEN src[c] ELSE df[c]]

DummyName(c, v) == c \o "_" \o v

\* Mutant of DropFirst: drop_first=False.
KeepAllLevels(levels) == levels

\* drop_first=True: the first level of a column gets no indicator
DropFirst(levels) == Tail(levels)

\* pd.get_dummies(data, drop_first=True): every object column is replaced by
\* one 0/1 column per level except the first level in sorted order; a column
\* of another dtype is left as it is.
get_dummies(data) ==
    LET objcols == {c \in DOMAIN data : data[c].dtype = "object"}
        kept    == {c \in DOMAIN data : data[c].dtype # "object"}
        pairs   == UNION {{<<c, v>> : v \in Range(DropFirst(unique(data[c])))} : c \in objcols}
        names   == {DummyName(p[1], p[2]) : p \in pairs}
    IN  [nm \in names \cup kept |->
            IF nm \in kept THEN data[nm]
            ELSE LET p == CHOOSE q \in pairs : DummyName(q[1], q[2]) = nm
                 IN  Col("number", [i \in DOMAIN data[p[1]].vals |->
                                       IF data[p[1]].vals[i] = p[2] THEN 1 ELSE 0])]

\* Mutants of process_dummies_columns.
process_dummies_columns_nodrop(df, columns) ==
    LET processed_cols == get_dummies(Select(df, columns))
        assigned == Assign(df, processed_cols)
    IN  [arg |-> assigned, ret |-> assigned, same |-> TRUE]

process_dummies_columns_wholeframe(df, columns) ==
    LET processed_cols == get_dummies(df)
        assigned == Assign(df, processed_cols)
    IN  [arg |-> assigned, ret |-> Without(assigned, columns), same |-> FALSE]

\* A call returns [arg, ret, same]: the value of the argument object after the
\* call, the value returned, and whether the returned object is the argument
\* object itself.
process_dummies_columns(df, columns) ==
    LET processed_cols == get_dummies(Select(df, columns))
        assigned == Assign(df, processed_cols)
    IN  [arg |-> assigned, ret |-> Without(assigned, columns), same |-> FALSE]

\* ------------------------------------------------------------ encode_labels

\* Mutant of fit_transform: codes in order of first appearance.
RECURSIVE FirstSeen(_)
FirstSeen(vals) ==
    IF vals = << >> THEN << >>
    ELSE LET h == FirstSeen(SubSeq(vals, 1, Len(vals) - 1))
             v == vals[Len(vals)]
         IN  IF v \in Range(h) THEN h ELSE Append(h, v)

fit_transform_firstseen(le, col) ==
    LET classes == FirstSeen(col.vals)
    IN  [le |-> [classes_ |-> classes],
         codes |-> [i \in DOMAIN col.vals |-> IndexOf(classes, col.vals[i]) - 1]]

\* LabelEncoder.fit_transform: classes_ is replaced by the sorted distinct
\* values of this column (whatever the encoder held before), and every value
\* becomes its index in classes_.
fit_transform(le, col) ==
    LET classes == unique(col)
    IN  [le |-> [classes_ |-> classes],
         codes |-> [i \in DOMAIN col.vals |-> IndexOf(classes, col.vals[i]) - 1]]

RECURSIVE encode_loop(_, _, _, _)
encode_loop(df, columns, i, le) ==
    IF i > Len(columns) THEN df
    ELSE LET r == fit_transform(le, df[columns[i]])
         IN  encode_loop([df EXCEPT ![columns[i]] = Col("number", r.codes)],
                         columns, i + 1, r.le)

encode_labels(df, columns) ==
    LET le == [classes_ |-> << >>]
        out == encode_loop(df, columns, 1, le)
    IN  [arg |-> out, ret |-> out, same |-> TRUE]

\* ------------------------------------------------------------- drop_columns

drop_columns(df, columns) ==
    [arg |-> df, ret |-> Without(df, columns), same |-> FALSE]

\* ------------------------------------------------------- process_all_labels

process_all_labels(df) ==
    LET d == process_dummies_columns(df, dummies_cols)
        e == encode_labels(d.ret, encoded_cols)
        x == drop_columns(e.ret, insignificant_cols)
    IN  [arg |-> IF d.same THEN (IF e.same THEN x.arg ELSE e.arg) ELSE d.arg,
         ret |-> x.ret, same |-> d.same /\ e.same /\ x.same]

process_native_data(df) ==
    LET copy == df
        r == process_all_labels(copy)
    IN  [arg |-> df, ret |-> r.ret, same |-> FALSE]

\* The three steps of process_all_labels applied by a caller in another order.
Step(name, df) ==
    CASE name = "dummies" -> process_dummies_columns(df, dummies_cols)
      [] name = "encode"  -> encode_labels(df, encoded_cols)
      [] name = "drop"    -> drop_columns(df, insignificant_cols)

StepOrders ==
    {o \in [1..3 -> {"dummies", "encode", "drop"}] : \A i, j \in 1..3 : o[i] = o[j] => i = j}

RunSteps(df, order) ==
    LET s1 == Step(order[1], df)
        s2 == Step(order[2], s1.ret)
        s3 == Step(order[3], s2.ret)
    IN  [arg |-> IF s1.same THEN (IF s2.same THEN s3.arg ELSE s2.arg) ELSE s1.arg,
         ret |-> s3.ret, same |-> s1.same /\ s2.same /\ s3.same]

\* -------------------------------------------------- fixed-dictionary mappers

exp_mapping == [k \in {"No relevent experience", "Has relevent experience"} |->
                   IF k = "No relevent experience" THEN 0 ELSE 1]

university_mapping ==
    [k \in {"None", "no_enrollment", "Part time course", "Full time course"} |->
        CASE k = "None" -> 0 [] k = "no_enrollment" -> 1
          [] k = "Part time course" -> 2 [] k = "Full time course" -> 3]

education_mapping ==
    [k \in {"None", "Primary School", "High School", "Masters", "Graduate", "Phd"} |->
        CASE k = "None" -> 0 [] k = "Primary School" -> 1 [] k = "High School" -> 2
          [] k = "Masters" -> 3 [] k = "Graduate" -> 4 [] k = "Phd" -> 5]

\* Mutant of SeriesMap: a value with no key is left as code 0.
SeriesMapDefault(col, mapping) ==
    Col("number", [i \in DOMAIN col.vals |->
        IF col.dtype = "object" /\ col.vals[i] \in DOMAIN mapping
        THEN mapping[col.vals[i]] ELSE 0])

\* Series.map(dict): a value that is a key becomes its entry, any other value
\* (a number is never equal to one of the string keys) becomes nan.
SeriesMap(col, mapping) ==
    Col("number", [i \in DOMAIN col.vals |->
        IF col.dtype = "object" /\ col.vals[i] \in DOMAIN mapping
        THEN mapping[col.vals[i]] ELSE NaN])

MapColumn(df, c, mapping) ==
    LET out == [df EXCEPT ![c] = SeriesMap(df[c], mapping)]
    IN  [arg |-> out, ret |-> Select(out, <<c>>), same |-> FALSE]

process_relevent_exp(df) == MapColumn(df, "relevent_experience", exp_mapping)

process_enrolled_university(df) == MapColumn(df, "enrolled_university", university_mapping)

process_education_level(df) == MapColumn(df, "education_level", education_mapping)

\* ----------------------------------------------------------------- actions

Call(name, o, r) ==
    /\ calls < MaxCalls
    /\ steps' = o
    /\ pre' = table
    /\ table' = r.arg
    /\ ret' = r.ret
    /\ last' = name
    /\ calls' = calls + 1
    /\ UNCHANGED pvars

ProcessNativeData == Call("process_native_data", << >>, process_native_data(table))

ProcessAllLabels == Call("process_all_labels", << >>, process_all_labels(table))

ProcessDummiesColumns ==
    Call("process_dummies_columns", << >>, process_dummies_columns(table, dummies_cols))

EncodeLabels == Call("encode_labels", << >>, encode_labels(table, encoded_cols))

ProcessReleventExp == Call("process_relevent_exp", << >>, process_relevent_exp(table))

ProcessEnrolledUniversity ==
    Call("process_enrolled_university", << >>, process_enrolled_university(table))

ProcessEducationLevel == Call("process_education_level", << >>, process_education_level(table))

StepsInOrder == \E o \in StepOrders : Call("steps_in_order", o, RunSteps(table, o))

PrepIdle ==
    /\ inp = << >>
    /\ reductioner = "idle"
    /\ pc = "idle"
    /\ err = ""
    /\ part = << >>
    /\ scaler = << >>
    /\ scaled = << >>
    /\ reducer = << >>
    /\ result = << >>

Init ==
    /\ table \in InputFrames
    /\ pre = table
    /\ ret = table
    /\ last = "none"
    /\ steps = << >>
    /\ calls = 0
    /\ PrepIdle

Next ==
    \/ ProcessNativeData
    \/ ProcessAllLabels
    \/ ProcessDummiesColumns
    \/ EncodeLabels
    \/ ProcessReleventExp
    \/ ProcessEnrolledUniversity
    \/ ProcessEducationLevel
    \/ StepsInOrder

Spec == Init /\ [][Next]_vars

\* ================================================= prepare_train_test_data

Runs == {1, 2}

None == "<None>"

test_size_tenths == 3

random_state == 1

pca_n_components == 5

lda_n_components == 1

RECURSIVE SeqSum(_)
SeqSum(q) == IF q = << >> THEN 0 ELSE q[1] + SeqSum(Tail(q))

Width(M) == IF M = << >> THEN 0 ELSE Len(M[1])

Rows(M, idx) == [k \in DOMAIN idx |-> M[idx[k]]]

\* ----------------------------------------------------- lines 192 to 195

no_target_cols(df) == SelectSeq(df.columns, LAMBDA x : x # "target")

FeatureValues(df) ==
    LET cols == no_target_cols(df)
    IN  [i \in 1..Len(df.data["target"]) |-> [j \in DOMAIN cols |-> df.data[cols[j]][i]]]

TargetValues(df) == df.data["target"]

\* ------------------------------------------ numpy RandomState(random_state)

\* The generator is a deterministic function of its seed; its stream is
\* modelled by a small congruential generator.
rng_next(s) == (13 * s + 7) % 64

Reverse(q) == [k \in DOMAIN q |-> q[Len(q) + 1 - k]]

Rotate(q, by) == [k \in DOMAIN q |-> q[((k - 1 + by) % Len(q)) + 1]]

\* rng.permutation(q): a rearrangement of q decided by the generator state
permutation(rng, q) ==
    [val |-> IF q = << >> THEN q
             ELSE IF (rng \div 8) % 2 = 1 THEN Reverse(Rotate(q, rng % Len(q)))
             ELSE Rotate(q, rng % Len(q)),
     rng |-> rng_next(rng)]

\* rng.choice(q, size=k, replace=False)
choice(rng, q, k) ==
    LET p == permutation(rng, q) IN [val |-> SubSeq(p.val, 1, k), rng |-> p.rng]

\* ------------------------------------------------- train_test_split

\* ceil(test_size * n_samples), and the rest
n_test_of(n) == (test_size_tenths * n + 9) \div 10

n_train_of(n) == n - n_test_of(n)

\* np.unique(y) and np.bincount(y_indices)
ClassesOf(y) == SortedSeq("number", Range(y))

ClassCounts(y) ==
    LET classes == ClassesOf(y)
    IN  [c \in DOMAIN classes |-> Cardinality({i \in DOMAIN y : y[i] = classes[c]})]

\* the rows of one class, in row order (stable argsort)
ClassIndices(y, cls) == SelectSeq([i \in DOMAIN y |-> i], LAMBDA i : y[i] = cls)

Descending(S) == Reverse(SortedSeq("number", S))

RECURSIVE add_remainders(_, _, _, _, _)
add_remainders(floored, remainder, values, need_to_add, rng) ==
    IF need_to_add = 0 \/ values = << >> THEN [val |-> floored, rng |-> rng]
    ELSE LET inds == SelectSeq([i \in DOMAIN remainder |-> i],
                               LAMBDA i : remainder[i] = values[1])
             add_now == IF Len(inds) < need_to_add THEN Len(inds) ELSE need_to_add
             picked == choice(rng, inds, add_now)
         IN  add_remainders(
                 [i \in DOMAIN floored |->
                     IF i \in Range(picked.val) THEN floored[i] + 1 ELSE floored[i]],
                 remainder, Tail(values), need_to_add - add_now, picked.rng)

\* Mutant of _approximate_mode: the rows left over by the rounding are not
\* handed out.
approximate_mode_floor(class_counts, n_draws, rng) ==
    [val |-> [i \in DOMAIN class_counts |->
                 (class_counts[i] * n_draws) \div SeqSum(class_counts)],
     rng |-> rng]

\* sklearn _approximate_mode: n_draws split over the classes in proportion to
\* class_counts, each class getting the floor of its share and the remaining
\* draws going to the largest fractional parts, ties broken by the generator.
approximate_mode(class_counts, n_draws, rng) ==
    LET total == SeqSum(class_counts)
        floored == [i \in DOMAIN class_counts |-> (class_counts[i] * n_draws) \div total]
        remainder == [i \in DOMAIN class_counts |-> (class_counts[i] * n_draws) % total]
        need_to_add == n_draws - SeqSum(floored)
    IN  add_remainders(floored, remainder, Descending(Range(remainder)), need_to_add, rng)

RECURSIVE class_loop(_, _, _, _, _, _, _)
class_loop(y, n_i, t_i, i, rng, train, test) ==
    IF i > Len(n_i) THEN [train |-> train, test |-> test, rng |-> rng]
    ELSE LET p == permutation(rng, ClassIndices(y, ClassesOf(y)[i]))
         IN  class_loop(y, n_i, t_i, i + 1, p.rng,
                        train \o SubSeq(p.val, 1, n_i[i]),
                        test \o SubSeq(p.val, n_i[i] + 1, n_i[i] + t_i[i]))

SplitFailed == [ok |-> FALSE, train |-> << >>, test |-> << >>]

\* random_state=1 on every call
SplitSeed(run) == random_state

\* train_test_split(X, y, test_size=0.3, random_state=1, stratify=y): the row
\* numbers of the train and of the test partition, or the failure the split
\* routine raises.
train_test_split(y, seed) ==
    LET n == Len(y)
        n_test == n_test_of(n)
        n_train == n_train_of(n)
        class_counts == ClassCounts(y)
        n_classes == Len(class_counts)
    IN  IF n_train = 0 THEN SplitFailed
        ELSE IF \E c \in DOMAIN class_counts : class_counts[c] < 2 THEN SplitFailed
        ELSE IF n_train < n_classes \/ n_test < n_classes THEN SplitFailed
        ELSE LET n_i == approximate_mode(class_counts, n_train, seed)
                 remaining == [c \in DOMAIN class_counts |-> class_counts[c] - n_i.val[c]]
                 t_i == approximate_mode(remaining, n_test, n_i.rng)
                 loop == class_loop(y, n_i.val, t_i.val, 1, t_i.rng, << >>, << >>)
                 train == permutation(loop.rng, loop.train)
                 test == permutation(train.rng, loop.test)
             IN  [ok |-> TRUE, train |-> train.val, test |-> test.val]

\* ------------------------------------------------------- StandardScaler

\* Mutant of FitData: the scaler is fitted on all rows.
FitDataAllRows(X_train, X_test) == X_train \o X_test

\* pipe.fit(X_train)
FitData(X_train, X_test) == X_train

\* StandardScaler.fit: per feature the mean sum/n and the variance
\* var_num/(n*n), kept as exact fractions.
scaler_fit(X) ==
    [j \in 1..Width(X) |->
        LET col == [i \in DOMAIN X |-> X[i][j]]
            n == Len(col)
            sum == SeqSum(col)
            sumsq == SeqSum([i \in DOMAIN col |-> col[i] * col[i]])
        IN  [n |-> n, sum |-> sum, var_num |-> n * sumsq - sum * sum]]

\* StandardScaler.transform: (x - mean) / scale with scale = sqrt(var), and
\* scale = 1 for a constant feature; the value is num / sqrt(den_sq).
scaler_transform(sc, X) ==
    [i \in DOMAIN X |->
        [j \in DOMAIN sc |->
            [num |-> sc[j].n * X[i][j] - sc[j].sum,
             den_sq |-> IF sc[j].var_num = 0 THEN sc[j].n * sc[j].n ELSE sc[j].var_num]]]

\* ------------------------------------------------------------ PCA and LDA

NoReducer == [kind |-> "none", n_components |-> 0, fit_X |-> << >>, fit_y |-> << >>]

\* Mutant of pca_fit: n_components clamped to what the data allows.
pca_fit_clamped(X) ==
    LET m == IF Len(X) < Width(X) THEN Len(X) ELSE Width(X)
    IN  [ok |-> TRUE,
         model |-> [kind |-> "pca",
                    n_components |-> IF m < pca_n_components THEN m ELSE pca_n_components,
                    fit_X |-> X, fit_y |-> << >>]]

\* PCA(n_components=5).fit(X): raises unless 5 <= min(n_samples, n_features);
\* the fitted basis is a function of X alone and is kept as the data it was
\* fitted on.
pca_fit(X) ==
    IF pca_n_components > Len(X) \/ pca_n_components > Width(X)
    THEN [ok |-> FALSE, model |-> NoReducer]
    ELSE [ok |-> TRUE,
          model |-> [kind |-> "pca", n_components |-> pca_n_components,
                     fit_X |-> X, fit_y |-> << >>]]

\* LDA(n_components=1).fit(X, y): raises unless there are more samples than
\* classes and 1 <= min(n_features, n_classes - 1).
lda_fit(X, y) ==
    LET n_classes == Cardinality(Range(y))
    IN  IF Len(X) <= n_classes \/ lda_n_components > n_classes - 1
               \/ lda_n_components > Width(X)
        THEN [ok |-> FALSE, model |-> NoReducer]
        ELSE [ok |-> TRUE,
              model |-> [kind |-> "lda", n_components |-> lda_n_components,
                         fit_X |-> X, fit_y |-> y]]

\* transform by a fitted projection: n_components coordinates per row, each a
\* function of the fitted model and of that row
project(model, X) ==
    [i \in DOMAIN X |-> [k \in 1..model.n_components |-> [component |-> k, of |-> X[i]]]]

\* Mutant of IsPca: the comparison ignores case.
IsPcaAnyCase(mode) == mode \in {"pca", "PCA"}

\* reductioner == "pca", reductioner == "lda"
IsPca(mode) == mode = "pca"

IsLda(mode) == mode = "lda"

\* ----------------------------------------------------------------- inputs

FeatureNames == <<"city", "city_development_index", "experience", "company_type",
                  "education_level", "last_new_job", "training_hours",
                  "gender_Male", "gender_Other">>

Modes == {None, "pca", "lda", "PCA", "LDA", "kpca"}

\* the numeric table of n rows and w feature columns, target after the first
\* feature, ones rows of class 1 starting at row off + 1; row bump, if any, has
\* every feature one higher
NumericTable(n, w, ones, off, bump) ==
    [columns |-> <<FeatureNames[1], "target">> \o SubSeq(FeatureNames, 2, w),
     data |-> [c \in {FeatureNames[j] : j \in 1..w} \cup {"target"} |->
                 IF c = "target"
                 THEN [i \in 1..n |-> IF ((i - 1 + n - off) % n) < ones THEN 1 ELSE 0]
                 ELSE LET j == CHOOSE k \in 1..w : FeatureNames[k] = c
                      IN  [i \in 1..n |-> ((i * (j + 1) + j) % 3) + (IF i = bump THEN 1 ELSE 0)]]]

\* ----------------------------------------------------------------- actions

\* Run 2 gets the table of run 1, or that table with one row changed. The
\* last tables are the 20 rows with classes 12:8 of the end-to-end scenario.
PrepInit ==
    /\ \/ \E n \in 2..MaxSamples, w \in 1..MaxFeatures :
          \E ones \in 0..n, off \in 0..1, bump \in 0..n :
              inp = [r \in Runs |-> NumericTable(n, w, ones, off, IF r = 1 THEN 0 ELSE bump)]
       \/ \E off \in 0..1 : inp = [r \in Runs |-> NumericTable(20, 1, 8, off, 0)]
    /\ reductioner \in Modes
    /\ pc = "start"
    /\ err = ""
    /\ part = << >>
    /\ scaler = << >>
    /\ scaled = << >>
    /\ reducer = << >>
    /\ result = << >>
    /\ table = << >>
    /\ pre = << >>
    /\ ret = << >>
    /\ last = "idle"
    /\ steps = << >>
    /\ calls = 0

Splits == [r \in Runs |-> train_test_split(TargetValues(inp[r]), SplitSeed(r))]

TrainTestSplit ==
    /\ pc = "start"
    /\ \A r \in Runs : Splits[r].ok
    /\ part' = [r \in Runs |->
                  LET X == FeatureValues(inp[r])
                      y == TargetValues(inp[r])
                  IN  [X_train |-> Rows(X, Splits[r].train), X_test |-> Rows(X, Splits[r].test),
                       y_train |-> Rows(y, Splits[r].train), y_test |-> Rows(y, Splits[r].test),
                       train |-> Splits[r].train, test |-> Splits[r].test]]
    /\ pc' = "split"
    /\ UNCHANGED <<inp, reductioner, err, scaler, scaled, reducer, result, tvars>>

TrainTestSplitRaises ==
    /\ pc = "start"
    /\ \E r \in Runs : ~Splits[r].ok
    /\ pc' = "error"
    /\ err' = "split"
    /\ UNCHANGED <<inp, reductioner, part, scaler, scaled, reducer, result, tvars>>

Standardize ==
    /\ pc = "split"
    /\ scaler' = [r \in Runs |-> scaler_fit(FitData(part[r].X_train, part[r].X_test))]
    /\ scaled' = [r \in Runs |->
                    [X_train |-> scaler_transform(scaler'[r], part[r].X_train),
                     X_test |-> scaler_transform(scaler'[r], part[r].X_test)]]
    /\ pc' = "scaled"
    /\ UNCHANGED <<inp, reductioner, err, part, reducer, result, tvars>>

Return(models, Xs) ==
    /\ reducer' = models
    /\ result' = [r \in Runs |->
                    [X_train |-> Xs[r].X_train, y_train |-> part[r].y_train,
                     X_test |-> Xs[r].X_test, y_test |-> part[r].y_test]]
    /\ pc' = "done"
    /\ UNCHANGED <<inp, reductioner, err, part, scaler, scaled, tvars>>

Raise(step) ==
    /\ pc' = "error"
    /\ err' = step
    /\ UNCHANGED <<inp, reductioner, part, scaler, scaled, reducer, result, tvars>>

PcaFits == [r \in Runs |-> pca_fit(scaled[r].X_train)]

LdaFits == [r \in Runs |-> lda_fit(scaled[r].X_train, part[r].y_train)]

ReducePca ==
    /\ pc = "scaled"
    /\ IsPca(reductioner)
    /\ \A r \in Runs : PcaFits[r].ok
    /\ Return([r \in Runs |-> PcaFits[r].model],
              [r \in Runs |-> [X_train |-> project(PcaFits[r].model, scaled[r].X_train),
                               X_test |-> project(PcaFits[r].model, scaled[r].X_test)]])

ReducePcaRaises ==
    /\ pc = "scaled"
    /\ IsPca(reductioner)
    /\ \E r \in Runs : ~PcaFits[r].ok
    /\ Raise("pca")

ReduceLda ==
    /\ pc = "scaled"
    /\ ~IsPca(reductioner)
    /\ IsLda(reductioner)
    /\ \A r \in Runs : LdaFits[r].ok
    /\ Return([r \in Runs |-> LdaFits[r].model],
              [r \in Runs |-> [X_train |-> project(LdaFits[r].model, scaled[r].X_train),
                               X_test |-> project(LdaFits[r].model, scaled[r].X_test)]])

ReduceLdaRaises ==
    /\ pc = "scaled"
    /\ ~IsPca(reductioner)
    /\ IsLda(reductioner)
    /\ \E r \in Runs : ~LdaFits[r].ok
    /\ Raise("lda")

NoReduction ==
    /\ pc = "scaled"
    /\ ~IsPca(reductioner)
    /\ ~IsLda(reductioner)
    /\ Return([r \in Runs |-> NoReducer], scaled)

PrepNext ==
    \/ TrainTestSplit
    \/ TrainTestSplitRaises
    \/ Standardize
    \/ ReducePca
    \/ ReducePcaRaises
    \/ ReduceLda
    \/ ReduceLdaRaises
    \/ NoReduction

PrepSpec == PrepInit /\ [][PrepNext]_vars

\* ------------------------------------------------------------------ claims

Distinct(col) == Range(col.vals)

IsObject(col) == col.dtype = "object"

\* the position of v among the distinct values of col, counted from 0
RankOf(col, v) == Cardinality({u \in Distinct(col) : Less(col.dtype, u, v)})

IsFirstLevel(col, v) == \A u \in Distinct(col) : ~Less(col.dtype, u, v)

Indicator(col, v) == Col("number", [i \in DOMAIN col.vals |-> IF col.vals[i] = v THEN 1 ELSE 0])

RECURSIVE SumOver(_, _)
SumOver(f, S) ==
    IF S = {} THEN 0
    ELSE LET x == CHOOSE y \in S : TRUE IN f[x] + SumOver(f, S \ {x})

TransformerCalled == last \in {"process_native_data", "process_all_labels"}

\* C1 as stated (P1): after the column transformer the output has no column
\* named gender, relevent_experience, enrolled_university, major_discipline,
\* company_size, city, experience, company_type, education_level,
\* last_new_job, training_hours or enrollee_id, and target is unchanged.
C1_Original ==
    TransformerCalled =>
        /\ \A c \in {"gender", "relevent_experience", "enrolled_university",
                     "major_discipline", "company_size", "city", "experience",
                     "company_type", "education_level", "last_new_job",
                     "training_hours", "enrollee_id"} : c \notin DOMAIN ret
        /\ "target" \in DOMAIN ret
        /\ ret["target"] = pre["target"]

\* C1 amended: after the column transformer the output has no column named
\* gender, relevent_experience, enrolled_university, major_discipline,
\* company_size or enrollee_id; the label-encoded columns (city,
\* city_development_index, experience, company_type, education_level,
\* last_new_job, training_hours) are still there under their own names and
\* hold integer codes; target has the same value in every row as in the input.
C1_ColumnCoverage ==
    TransformerCalled =>
        /\ \A c \in {"gender", "relevent_experience", "enrolled_university",
                     "major_discipline", "company_size", "enrollee_id"} :
               c \notin DOMAIN ret
        /\ \A c \in {"city", "city_development_index", "experience", "company_type",
                     "education_level", "last_new_job", "training_hours"} :
               /\ c \in DOMAIN ret
               /\ ret[c].dtype = "number"
               /\ Len(ret[c].vals) = NRows(pre)
               /\ \A i \in DOMAIN ret[c].vals : ret[c].vals[i] \in 0..(NRows(pre) - 1)
        /\ "target" \in DOMAIN ret
        /\ ret["target"] = pre["target"]

C1_Witness ==
    /\ last = "process_native_data"
    /\ "city" \in DOMAIN ret
    /\ "gender" \notin DOMAIN ret
    /\ 1 \in Range(ret["city"].vals)

\* C2 (P3): after encode_labels, in every encoded column the set of codes is
\* {0..k-1}, k the number of distinct input values of that column; the code of
\* a value is its rank among the sorted distinct values of that column alone;
\* equal values get equal codes.
C2_EncodingRange ==
    last = "encode_labels" =>
        \A c \in Range(encoded_cols) :
            /\ ret[c].dtype = "number"
            /\ Len(ret[c].vals) = Len(pre[c].vals)
            /\ Range(ret[c].vals) = 0..(Cardinality(Distinct(pre[c])) - 1)
            /\ \A i \in DOMAIN pre[c].vals : ret[c].vals[i] = RankOf(pre[c], pre[c].vals[i])
            /\ \A i, j \in DOMAIN pre[c].vals :
                   pre[c].vals[i] = pre[c].vals[j] => ret[c].vals[i] = ret[c].vals[j]

\* two columns of different vocabulary size, one of them not in first-seen order
C2_Witness ==
    /\ last = "encode_labels"
    /\ Cardinality(Distinct(pre["city"])) = 2
    /\ Cardinality(Distinct(pre["experience"])) = 3
    /\ IsObject(pre["experience"])
    /\ ret["experience"].vals[1] > ret["experience"].vals[2]

DummiesCalled == last = "process_dummies_columns"

RowsReversed(df) ==
    [c \in DOMAIN df |->
        Col(df[c].dtype, [i \in DOMAIN df[c].vals |-> df[c].vals[Len(df[c].vals) + 1 - i]])]

RowsDoubled(df) == [c \in DOMAIN df |-> Col(df[c].dtype, df[c].vals \o df[c].vals)]

MapperColumn ==
    CASE last = "process_relevent_exp" -> "relevent_experience"
      [] last = "process_enrolled_university" -> "enrolled_university"
      [] last = "process_education_level" -> "education_level"

MapperDict ==
    CASE last = "process_relevent_exp" -> exp_mapping
      [] last = "process_enrolled_university" -> university_mapping
      [] last = "process_education_level" -> education_mapping

MapperCalled ==
    last \in {"process_relevent_exp", "process_enrolled_university", "process_education_level"}

\* C8: a fixed-dictionary encoder replaces every value that is a key of its
\* dictionary by the fixed code and every other value by a missing value; the
\* row count is unchanged.
C8_FixedDictionary ==
    MapperCalled =>
        LET c == MapperColumn
            d == MapperDict
        IN  /\ DOMAIN ret = {c}
            /\ Len(ret[c].vals) = Len(pre[c].vals)
            /\ \A i \in DOMAIN pre[c].vals :
                   IF IsObject(pre[c]) /\ pre[c].vals[i] \in DOMAIN d
                   THEN ret[c].vals[i] = d[pre[c].vals[i]]
                   ELSE ret[c].vals[i] = NaN
            /\ \A i \in DOMAIN pre[c].vals :
                   /\ (IsObject(pre[c]) /\ pre[c].vals[i] = "Graduate"
                          /\ last = "process_education_level") => ret[c].vals[i] = 4
                   /\ (IsObject(pre[c]) /\ pre[c].vals[i] = "Has relevent experience"
                          /\ last = "process_relevent_exp") => ret[c].vals[i] = 1
                   /\ (IsObject(pre[c]) /\ pre[c].vals[i] = "Full time course"
                          /\ last = "process_enrolled_university") => ret[c].vals[i] = 3

\* a mapped and an unmapped value in the same column
C8_Witness ==
    /\ last = "process_education_level"
    /\ IsObject(pre["education_level"])
    /\ "Bachelors" \in Distinct(pre["education_level"])
    /\ Range(ret["education_level"].vals) = {4, NaN}

\* C9: a column-processing call leaves the table passed in by the caller with
\* the same columns and the same values as before the call.
C9_Pure == calls > 0 => table = pre

\* C10: the three steps of process_all_labels applied in any order give the
\* columns and values that process_all_labels gives.
C10_OrderIndependent ==
    last = "steps_in_order" => ret = process_all_labels(pre).ret

C10_Witness ==
    /\ last = "steps_in_order"
    /\ steps = <<"drop", "encode", "dummies">>
    /\ "gender_Male" \in DOMAIN ret
    /\ 2 \in Range(ret["city"].vals)


\* ---------------------------------------- claims, prepare_train_test_data

SplitDone == pc \in {"split", "scaled", "done"} \/ (pc = "error" /\ err # "split")

ScalerDone == pc \in {"scaled", "done"} \/ (pc = "error" /\ err # "split")

Finished == pc \in {"done", "error"}

NFeatures(r) == Len(no_target_cols(inp[r]))

CountOf(q, v) == Cardinality({k \in DOMAIN q : q[k] = v})

TrainSame == part[1].X_train = part[2].X_train /\ part[1].y_train = part[2].y_train

\* C3 (P4): two runs with the same train partition (features and labels),
\* whatever their test partitions, have the same fitted scaler, the same
\* fitted projection and the same transformed train features.
C3_NoLeakage ==
    (ScalerDone /\ TrainSame) =>
        /\ scaler[1] = scaler[2]
        /\ scaled[1].X_train = scaled[2].X_train
        /\ pc = "done" => /\ reducer[1] = reducer[2]
                          /\ result[1].X_train = result[2].X_train

C3_Witness ==
    /\ pc = "done"
    /\ reductioner = "pca"
    /\ TrainSame
    /\ part[1].X_test # part[2].X_test
    /\ scaled[1].X_test # scaled[2].X_test
    /\ reducer[1].kind = "pca"

PcaOutcome == reductioner = "pca" /\ Finished /\ err # "split"

\* C4 as stated (P6): with mode "pca" the call does not fail and both returned
\* feature matrices have width 5, or the number of features when that is
\* fewer than 5.
C4_Original ==
    PcaOutcome =>
        /\ pc = "done"
        /\ \A r \in Runs :
               LET w == IF NFeatures(r) < 5 THEN NFeatures(r) ELSE 5
               IN  Width(result[r].X_train) = w /\ Width(result[r].X_test) = w

\* C4 amended: with mode "pca", when the table has at least 5 feature columns
\* and the train partition at least 5 rows, both returned feature matrices
\* have width 5; with fewer features (or fewer train rows) the call fails in
\* the projection's fit and returns nothing.
C4_PcaWidth ==
    PcaOutcome =>
        IF \A r \in Runs : NFeatures(r) >= 5 /\ Len(part[r].X_train) >= 5
        THEN /\ pc = "done"
             /\ \A r \in Runs : /\ Width(result[r].X_train) = 5
                                /\ Width(result[r].X_test) = 5
                                /\ Len(result[r].X_train) = Len(part[r].X_train)
                                /\ Len(result[r].X_test) = Len(part[r].X_test)
        ELSE pc = "error" /\ err = "pca" /\ result = << >>

C4_Witness ==
    /\ pc = "done"
    /\ reductioner = "pca"
    /\ NFeatures(1) >= 5
    /\ Width(result[1].X_train) = 5
    /\ Width(result[1].X_test) = 5

C6_Split ==
    SplitDone =>
        /\ \A r \in Runs :
            LET X == FeatureValues(inp[r])
                y == TargetValues(inp[r])
                n == Len(y)
                tr == part[r].train
                te == part[r].test
            IN  /\ Range(tr) \cap Range(te) = {}
                /\ Range(tr) \cup Range(te) = 1..n
                /\ Len(tr) + Len(te) = n
                /\ Len(part[r].X_train) = Len(tr) /\ Len(part[r].y_train) = Len(tr)
                /\ Len(part[r].X_test) = Len(te) /\ Len(part[r].y_test) = Len(te)
                /\ \A k \in DOMAIN tr : part[r].X_train[k] = X[tr[k]] /\ part[r].y_train[k] = y[tr[k]]
                /\ \A k \in DOMAIN te : part[r].X_test[k] = X[te[k]] /\ part[r].y_test[k] = y[te[k]]
                /\ 10 * Len(te) >= 3 * n
                /\ 10 * Len(te) < 3 * n + 10
                /\ n = 20 => Len(tr) = 14 /\ Len(te) = 6
                /\ \A c \in Range(y) :
                       /\ CountOf(part[r].y_train, c) * n > CountOf(y, c) * Len(tr) - n
                       /\ CountOf(part[r].y_train, c) * n < CountOf(y, c) * Len(tr) + n
                       /\ CountOf(part[r].y_test, c) * n > CountOf(y, c) * Len(te) - n
                       /\ CountOf(part[r].y_test, c) * n < CountOf(y, c) * Len(te) + n
                /\ (n = 20 /\ CountOf(y, 0) = 12) =>
                       /\ CountOf(part[r].y_train, 0) = 8 /\ CountOf(part[r].y_train, 1) = 6
                       /\ CountOf(part[r].y_test, 0) = 4 /\ CountOf(part[r].y_test, 1) = 2
        /\ TargetValues(inp[1]) = TargetValues(inp[2]) =>
               part[1].train = part[2].train /\ part[1].test = part[2].test
        /\ inp[1] = inp[2] => part[1] = part[2]

C6_Witness ==
    /\ pc = "done"
    /\ Len(TargetValues(inp[1])) = 20
    /\ CountOf(TargetValues(inp[1]), 0) = 12
    /\ Len(part[1].train) = 14
    /\ CountOf(part[1].y_test, 1) = 2
    /\ part[1].train # [k \in 1..14 |-> k]

=============================================================================
